---- MODULE Spec2Model ----
(***************************************************************************)
(* The upload worker (worker/src/index.ts): one fetch handler that         *)
(* validates a request, rate-limits the caller, writes the file to the     *)
(* bucket and answers with the public URL; and the image panel of the      *)
(* editor (ImageSidebarPanel.tsx), which uploads a chosen file to it.      *)
(*                                                                         *)
(* A string whose inside matters (it is trimmed, stripped, concatenated or *)
(* echoed) is a sequence of tokens; a string that is only compared is a    *)
(* TLA+ string.  null / undefined is None, a present value x is Some(x).   *)
(***************************************************************************)
EXTENDS Integers, Sequences, FiniteSets, TLC

VARIABLES
  env,           \* the worker's bindings: ALLOWED_ORIGIN, UPLOAD_API_KEY, R2_PUBLIC_URL
  now,           \* what Date.now() returns
  rateLimitMap,  \* identifier -> None | Some([count, windowStart])
  inflight,      \* slot -> one invocation of fetch: where it is and what it holds
  seen,          \* history: identifier -> the window its requests are in, and how many came
  meter,         \* history: admissions of one identifier during one interval
  admits,        \* history: identifier -> admissions in the window `seen` keeps
  viteEnv,       \* the panel's build: VITE_UPLOAD_WORKER_URL, VITE_UPLOAD_API_KEY
  data,          \* the image block the panel edits: its props and style
  uploadState,   \* the panel's upload state: idle, uploading or error with a message
  fileInput,     \* the value of the hidden file input
  upload         \* the running call of handleFileChange: where it is and what it closed over

workerVars == <<env, now, rateLimitMap, inflight, seen, meter, admits>>

panelVars == <<viteEnv, data, uploadState, fileInput, upload>>

vars == <<workerVars, panelVars>>

None == <<>>
Some(x) == <<x>>
Val(o) == o[1]

(***************************************************************************)
(* String helpers                                                          *)
(***************************************************************************)
RECURSIVE TrimStart(_)
TrimStart(s) ==
  IF s # <<>> /\ Head(s) = " " THEN TrimStart(Tail(s)) ELSE s

RECURSIVE TrimEnd(_)
TrimEnd(s) ==
  IF s # <<>> /\ s[Len(s)] = " " THEN TrimEnd(SubSeq(s, 1, Len(s) - 1)) ELSE s

\* String.prototype.trim
Trim(s) == TrimEnd(TrimStart(s))

\* env.ALLOWED_ORIGIN?.trim()
TrimOpt(o) == IF o = None THEN None ELSE Some(Trim(Val(o)))

\* JavaScript truthiness of (string | undefined), the string a token sequence
Truthy(o) == o # None /\ Val(o) # <<>>

\* JavaScript truthiness of (string | undefined), the string a plain one
TruthyKey(o) == o # None /\ Val(o) # ""

\* s.replace(/\/$/, ''): one trailing slash is removed
StripTrailingSlash(s) ==
  IF s # <<>> /\ s[Len(s)] = "/" THEN SubSeq(s, 1, Len(s) - 1) ELSE s

RECURSIVE Join(_, _)
\* Array.prototype.join
Join(parts, sep) ==
  IF parts = <<>> THEN <<>>
  ELSE IF Len(parts) = 1 THEN <<parts[1]>>
  ELSE <<parts[1], sep>> \o Join(Tail(parts), sep)

RECURSIVE JsonEscape(_)
\* the string escaping of JSON.stringify: a double quote becomes \"
JsonEscape(s) ==
  IF s = <<>> THEN <<>>
  ELSE <<(IF Head(s) = "\"" THEN "\\\"" ELSE Head(s))>> \o JsonEscape(Tail(s))

\* JSON.stringify({ <member>: <text> })
JsonStringify(member, text) ==
  <<"{", "\"", member, "\"", ":", "\"">> \o JsonEscape(text) \o <<"\"", "}">>

(***************************************************************************)
(* Rate limiter                                                            *)
(***************************************************************************)
RATE_LIMIT_MAX == 20

RATE_LIMIT_WINDOW_MS == 60000

\* isRateLimited with the count compared by > : one request too many passes
isRateLimited_OneTooMany(m, ip, t) ==
  LET entry == m[ip] IN
  IF entry = None \/ t - Val(entry).windowStart > RATE_LIMIT_WINDOW_MS
  THEN [limited |-> FALSE,
        map |-> [m EXCEPT ![ip] = Some([count |-> 1, windowStart |-> t])]]
  ELSE IF Val(entry).count > RATE_LIMIT_MAX
  THEN [limited |-> TRUE, map |-> m]
  ELSE [limited |-> FALSE,
        map |-> [m EXCEPT ![ip] =
                   Some([count |-> Val(entry).count + 1,
                         windowStart |-> Val(entry).windowStart])]]

\* isRateLimited with the window compared by >= : it resets one millisecond early
isRateLimited_ResetsEarly(m, ip, t) ==
  LET entry == m[ip] IN
  IF entry = None \/ t - Val(entry).windowStart >= RATE_LIMIT_WINDOW_MS
  THEN [limited |-> FALSE,
        map |-> [m EXCEPT ![ip] = Some([count |-> 1, windowStart |-> t])]]
  ELSE IF Val(entry).count >= RATE_LIMIT_MAX
  THEN [limited |-> TRUE, map |-> m]
  ELSE [limited |-> FALSE,
        map |-> [m EXCEPT ![ip] =
                   Some([count |-> Val(entry).count + 1,
                         windowStart |-> Val(entry).windowStart])]]

\* isRateLimited restarting the window of a request it rejects
isRateLimited_RejectionRestartsWindow(m, ip, t) ==
  LET entry == m[ip] IN
  IF entry = None \/ t - Val(entry).windowStart > RATE_LIMIT_WINDOW_MS
  THEN [limited |-> FALSE,
        map |-> [m EXCEPT ![ip] = Some([count |-> 1, windowStart |-> t])]]
  ELSE IF Val(entry).count >= RATE_LIMIT_MAX
  THEN [limited |-> TRUE,
        map |-> [m EXCEPT ![ip] =
                   Some([count |-> Val(entry).count, windowStart |-> t])]]
  ELSE [limited |-> FALSE,
        map |-> [m EXCEPT ![ip] =
                   Some([count |-> Val(entry).count + 1,
                         windowStart |-> Val(entry).windowStart])]]

\* isRateLimited(ip) at time t on the map m: the answer and the map it leaves
isRateLimited(m, ip, t) ==
  LET entry == m[ip] IN
  IF entry = None \/ t - Val(entry).windowStart > RATE_LIMIT_WINDOW_MS
  THEN [limited |-> FALSE,
        map |-> [m EXCEPT ![ip] = Some([count |-> 1, windowStart |-> t])]]
  ELSE IF Val(entry).count >= RATE_LIMIT_MAX
  THEN [limited |-> TRUE, map |-> m]
  ELSE [limited |-> FALSE,
        map |-> [m EXCEPT ![ip] =
                   Some([count |-> Val(entry).count + 1,
                         windowStart |-> Val(entry).windowStart])]]

(***************************************************************************)
(* CORS helpers and responses                                              *)
(***************************************************************************)
\* getAllowedOrigin returning the binding as written, not trimmed
getAllowedOrigin_Untrimmed(e, requestOrigin) ==
  LET configured == TrimOpt(e.ALLOWED_ORIGIN) IN
  IF Truthy(configured) THEN Val(e.ALLOWED_ORIGIN)
  ELSE IF requestOrigin # None THEN Val(requestOrigin) ELSE <<"*">>

getAllowedOrigin(e, requestOrigin) ==
  LET configured == TrimOpt(e.ALLOWED_ORIGIN) IN
  IF Truthy(configured) THEN Val(configured)
  ELSE IF requestOrigin # None THEN Val(requestOrigin) ELSE <<"*">>

buildCorsHeaders(e, requestOrigin) ==
  ("Access-Control-Allow-Origin" :> getAllowedOrigin(e, requestOrigin))
  @@ ("Access-Control-Allow-Methods" :> <<"POST, OPTIONS">>)
  @@ ("Access-Control-Allow-Headers" :> <<"Content-Type, X-Upload-Api-Key">>)
  @@ ("Access-Control-Max-Age" :> <<"86400">>)

\* jsonResponse without the spread of extraHeaders
jsonResponse_DropsExtraHeaders(member, text, status, extraHeaders) ==
  [status |-> status,
   headers |-> ("Content-Type" :> <<"application/json">>),
   body |-> Some(JsonStringify(member, text))]

\* { 'Content-Type': 'application/json', ...extraHeaders }: the spread wins
jsonResponse(member, text, status, extraHeaders) ==
  [status |-> status,
   headers |-> extraHeaders @@ ("Content-Type" :> <<"application/json">>),
   body |-> Some(JsonStringify(member, text))]

\* new Response(null, { status: 204, headers: corsHeaders })
PreflightResponse(corsHeaders) ==
  [status |-> 204, headers |-> corsHeaders, body |-> None]

(***************************************************************************)
(* Allowed image MIME types -> file extensions                             *)
(***************************************************************************)
\* the own properties of the object literal, in insertion order
ALLOWED_TYPES ==
  << <<"image/jpeg", "jpg">>,
     <<"image/png", "png">>,
     <<"image/gif", "gif">>,
     <<"image/webp", "webp">>,
     <<"image/svg+xml", "svg">> >>

\* An object literal inherits from Object.prototype: these property names
\* resolve on ALLOWED_TYPES too.  The second component is the value as a
\* template literal renders it.
ObjectPrototype ==
  << <<"constructor", "function Object() { [native code] }">>,
     <<"toString", "function toString() { [native code] }">>,
     <<"valueOf", "function valueOf() { [native code] }">>,
     <<"hasOwnProperty", "function hasOwnProperty() { [native code] }">>,
     <<"__proto__", "[object Object]">> >>

\* Object.keys(ALLOWED_TYPES)
ObjectKeys(obj) == [i \in 1..Len(obj) |-> obj[i][1]]

Lookup(table, k) ==
  IF \E i \in 1..Len(table) : table[i][1] = k
  THEN Some(table[CHOOSE i \in 1..Len(table) : table[i][1] = k][2])
  ELSE None

\* ALLOWED_TYPES[k]: the own property, else the inherited one, else undefined
GetProperty(k) ==
  IF Lookup(ALLOWED_TYPES, k) # None THEN Lookup(ALLOWED_TYPES, k)
  ELSE Lookup(ObjectPrototype, k)

\* `Unsupported file type "${file.type}". Allowed types: ${...join(', ')}`
UnsupportedTypeMessage(type) ==
  <<"Unsupported file type ", "\"", type, "\"", ". Allowed types: ">>
  \o Join(ObjectKeys(ALLOWED_TYPES), ", ")

\* `uploads/${Date.now()}-${crypto.randomUUID()}.${ext}`
StorageKey(t, uuid, ext) == <<"uploads/", ToString(t), "-", uuid, ".", ext>>

\* `${publicBaseUrl}/${key}`
PublicUrl(e, key) == StripTrailingSlash(e.R2_PUBLIC_URL) \o <<"/">> \o key

(***************************************************************************)
(* The values requests, bindings and the clock are drawn from              *)
(***************************************************************************)
OriginA == <<"https://a.example">>

OriginB == <<"https://b.example">>

Methods == {"OPTIONS", "POST", "GET"}

Origins == {None, Some(OriginA), Some(OriginB)}

ApiKeys == {None, Some("s3cret"), Some("wrong")}

IpHeaders == {None, Some("203.0.113.7")}

\* the identifiers the limiter can key on: a header value, or the fallback
Identifiers == {Val(h) : h \in IpHeaders \ {None}} \cup {"unknown"}

Requests ==
  [method : Methods, origin : Origins, apiKey : ApiKeys, ip : IpHeaders]

FileTypes ==
  {ALLOWED_TYPES[i][1] : i \in 1..Len(ALLOWED_TYPES)}
  \cup {"application/pdf", "constructor"}

\* how `await request.formData()` and formData.get('file') can come out
Bodies ==
  {[kind |-> "throws", type |-> ""],
   [kind |-> "missing", type |-> ""],
   [kind |-> "string", type |-> ""]}
  \cup {[kind |-> "file", type |-> t] : t \in FileTypes}

UUIDs ==
  {"3b241101-e2bb-4255-8caf-4136c566a962", "f5b0c2d4-6a1e-4c3b-9d7f-0e8a1b2c3d4e"}

BackendErrors == {"R2: internal error 10001"}

\* how `await file.arrayBuffer()` and `await IMAGE_BUCKET.put(...)` can come out
StoreOutcomes ==
  {[kind |-> "stored", err |-> ""]}
  \cup {[kind |-> k, err |-> e] : k \in {"readThrows", "putThrows"}, e \in BackendErrors}

PublicBase == <<"https://pub-abc123.r2.dev">>

Envs ==
  [ALLOWED_ORIGIN : {None, Some(<<" ">>), Some(<<" ">> \o OriginA \o <<" ">>)},
   UPLOAD_API_KEY : {None, Some("s3cret")},
   R2_PUBLIC_URL : {PublicBase, PublicBase \o <<"/">>}]

\* the instants Date.now() takes: one window length after 0 and the
\* millisecond past it, and one window length after that
Instants ==
  {0, RATE_LIMIT_WINDOW_MS, RATE_LIMIT_WINDOW_MS + 1,
   2 * RATE_LIMIT_WINDOW_MS + 1}

Slots == {1, 2}

\* the rank history stops counting here
MaxRank == 22

(***************************************************************************)
(* The values the panel's build, block, files and responses are drawn from *)
(***************************************************************************)
WorkerUrl == "https://upload.example.workers.dev"

\* import.meta.env: each variable unset, empty or set
ViteEnvs ==
  [VITE_UPLOAD_WORKER_URL : {None, Some(""), Some(WorkerUrl)},
   VITE_UPLOAD_API_KEY : {None, Some(""), Some("s3cret")}]

NoUploadBuild == [VITE_UPLOAD_WORKER_URL |-> None, VITE_UPLOAD_API_KEY |-> None]

WORKER_URL == viteEnv.VITE_UPLOAD_WORKER_URL

API_KEY == viteEnv.VITE_UPLOAD_API_KEY

\* Boolean(WORKER_URL && API_KEY)
UPLOAD_ENABLED == TruthyKey(WORKER_URL) /\ TruthyKey(API_KEY)

UploadedUrl == <<"https://pub-abc123.r2.dev", "/", "uploads/", "1", "-", "u", ".", "png">>

TypedUrl == <<"https://images.example/logo.png">>

\* what the user types into the Source URL and Alt text fields
UrlTexts == {<<>>, <<" ">>, <<" ">> \o TypedUrl \o <<" ">>}

AltTexts == {"", "Logo"}

\* what the style panel hands to its onChange
Styles == {None, Some([padding |-> 16])}

\* ImageProps: the props the panel's fields write, and the style
ImagePropsValues ==
  [props : [url : {None, Some(TypedUrl), Some(UploadedUrl)},
            alt : {None} \cup {Some(a) : a \in AltTexts}],
   style : Styles]

EmptyBlock == [props |-> [url |-> None, alt |-> None], style |-> None]

\* the blocks the panel is opened on
Blocks ==
  {EmptyBlock,
   [props |-> [url |-> Some(TypedUrl), alt |-> Some("Logo")], style |-> None]}

\* e.target.files?.[0]: no file, or the file chosen
Files == {None, Some("photo.png")}

\* a Response of fetch: ok is true for a status from 200 to 299
Response(status) == [status |-> status, ok |-> status >= 200 /\ status <= 299]

\* how `await fetch(...)` settles
FetchOutcomes ==
  {[kind |-> "rejects", response |-> None]}
    \cup {[kind |-> "resolves", response |-> Some(Response(st))] : st \in {200, 401}}

\* how `await response.json()` settles: the body is not JSON, is JSON null,
\* or is an object with or without url and error
JsonOutcomes ==
  {[kind |-> "rejects", url |-> None, error |-> None],
   [kind |-> "null", url |-> None, error |-> None]}
    \cup [kind : {"object"},
          url : {None, Some(<<>>), Some(UploadedUrl)},
          error : {None, Some(<<"Unauthorized">>)}]

(***************************************************************************)
(* State                                                                   *)
(***************************************************************************)
IdleSlot ==
  [pc |-> "idle", req |-> None, file |-> None, key |-> None, resp |-> None,
   stages |-> <<>>, at |-> 0, entryBefore |-> None, seenBefore |-> None,
   rank |-> 0, body |-> None, outcome |-> None, puts |-> <<>>, logged |-> None]

NoMeter == [ip |-> None, start |-> 0, admitted |-> 0]

\* the worker at start: an empty map, no invocation
WorkerInit(envs) ==
  /\ env \in envs
  /\ now = 0
  /\ rateLimitMap = [ip \in Identifiers |-> None]
  /\ inflight = [s \in Slots |-> IdleSlot]
  /\ seen = [ip \in Identifiers |-> None]
  /\ meter = NoMeter
  /\ admits = [ip \in Identifiers |-> 0]

\* no call of handleFileChange is running; beside where it is (pc) and what
\* it closed over (data) and holds (file, response), as history: what the
\* last call's awaits brought (fetched, parsed), what it passed to setData,
\* and how it ended
IdleUpload ==
  [pc |-> "idle", data |-> None, file |-> None, response |-> None,
   fetched |-> None, parsed |-> None, setData |-> None, ended |-> "never"]

\* the panel as mounted: useState({ status: 'idle' }), an empty file input
PanelInit(builds, blocks) ==
  /\ viteEnv \in builds
  /\ data \in blocks
  /\ uploadState = [status |-> "idle", message |-> None]
  /\ fileInput = ""
  /\ upload = IdleUpload

InitWith(envs) ==
  /\ WorkerInit(envs)
  /\ PanelInit({NoUploadBuild}, {EmptyBlock})

Init == InitWith(Envs)

(***************************************************************************)
(* History kept beside the program state (the program reads none of it)    *)
(***************************************************************************)
Min(a, b) == IF a < b THEN a ELSE b

\* A request of `ip` reaches the limiter at time t.  It opens a window when
\* it is the identifier's first or comes more than one window length after
\* the request that opened the current one; n counts the requests of the
\* window, the opener included.
SeenAfter(ip, t) ==
  IF seen[ip] = None \/ t - Val(seen[ip]).firstAt > RATE_LIMIT_WINDOW_MS
  THEN [firstAt |-> t, n |-> 1]
  ELSE [firstAt |-> Val(seen[ip]).firstAt,
        n |-> Min(Val(seen[ip]).n + 1, MaxRank)]

\* the meter counts the admissions of its identifier from its start on, for
\* one window length: at the instants start .. start + 59 999
MeterAfter(ip, t, admitted) ==
  IF /\ admitted
     /\ meter.ip = Some(ip)
     /\ t - meter.start < RATE_LIMIT_WINDOW_MS
  THEN [meter EXCEPT !.admitted = Min(@ + 1, RATE_LIMIT_MAX + 1)]
  ELSE meter

\* the requests of `ip` admitted in the window that SeenAfter keeps, the
\* opener included; it stops counting one past the limit
AdmitsAfter(ip, t, admitted) ==
  LET sofar == IF seen[ip] = None \/ t - Val(seen[ip]).firstAt > RATE_LIMIT_WINDOW_MS
               THEN 0 ELSE admits[ip]
  IN IF admitted THEN Min(sofar + 1, RATE_LIMIT_MAX + 1) ELSE sofar

(***************************************************************************)
(* The handler.  An invocation runs from one await to the next without     *)
(* another invocation running in between; each action is one such run.     *)
(* A slot holds the invocation's locals (req, file, key), where it is (pc) *)
(* and what it returns (resp); beside them, as history, the stages it has  *)
(* run, what the limiter read and answered (at, entryBefore, seenBefore,   *)
(* rank), what its awaits brought (body, outcome), the put calls it made   *)
(* and what it logged.                                                     *)
(***************************************************************************)
\* request.headers.get('CF-Connecting-IP') ?? 'unknown'
ClientIp(req) == IF req.ip # None THEN Val(req.ip) ELSE "unknown"

\* OriginRejected with a request that carries no Origin header let through
OriginRejected_AbsentPasses(e, requestOrigin) ==
  LET configuredOrigin == TrimOpt(e.ALLOWED_ORIGIN) IN
  /\ Truthy(configuredOrigin)
  /\ requestOrigin # None
  /\ requestOrigin # configuredOrigin

\* configuredOrigin && requestOrigin !== configuredOrigin
OriginRejected(e, requestOrigin) ==
  LET configuredOrigin == TrimOpt(e.ALLOWED_ORIGIN) IN
  Truthy(configuredOrigin) /\ requestOrigin # configuredOrigin

\* ApiKeyRejected without the test for an unconfigured secret
ApiKeyRejected_NoUnsetTest(e, apiKey) == apiKey # e.UPLOAD_API_KEY

\* !env.UPLOAD_API_KEY || apiKey !== env.UPLOAD_API_KEY
ApiKeyRejected(e, apiKey) ==
  ~TruthyKey(e.UPLOAD_API_KEY) \/ apiKey # e.UPLOAD_API_KEY

\* formData() threw, or !uploaded || !(uploaded instanceof File)
ParseFailed(body) == body.kind # "file"

\* the slot of an invocation that returns `response` after `stages`
Returned(slot, req, stages, response) ==
  [slot EXCEPT !.pc = "done", !.req = Some(req), !.stages = stages,
               !.resp = Some(response)]

\* Begin with the limiter consulted before the API-key check
Begin_LimitsBeforeApiKey(s, req) ==
  /\ inflight[s].pc = "idle"
  /\ LET requestOrigin == req.origin
         corsHeaders == buildCorsHeaders(env, requestOrigin)
         ip == ClientIp(req)
         limiter == isRateLimited(rateLimitMap, ip, now)
         reached == [inflight[s] EXCEPT
                       !.req = Some(req),
                       !.stages = <<"preflight", "method", "origin", "apikey", "ratelimit">>,
                       !.at = now,
                       !.entryBefore = rateLimitMap[ip],
                       !.seenBefore = seen[ip],
                       !.rank = SeenAfter(ip, now).n]
     IN
     IF req.method = "OPTIONS"
     THEN /\ inflight' = [inflight EXCEPT ![s] =
                 Returned(@, req, <<"preflight">>, PreflightResponse(corsHeaders))]
          /\ UNCHANGED <<rateLimitMap, seen, meter, admits>>
     ELSE IF req.method # "POST"
     THEN /\ inflight' = [inflight EXCEPT ![s] =
                 Returned(@, req, <<"preflight", "method">>,
                   jsonResponse("error", <<"Method not allowed">>, 405, corsHeaders))]
          /\ UNCHANGED <<rateLimitMap, seen, meter, admits>>
     ELSE IF OriginRejected(env, requestOrigin)
     THEN /\ inflight' = [inflight EXCEPT ![s] =
                 Returned(@, req, <<"preflight", "method", "origin">>,
                   jsonResponse("error", <<"Origin not allowed">>, 403, corsHeaders))]
          /\ UNCHANGED <<rateLimitMap, seen, meter, admits>>
     ELSE /\ rateLimitMap' = limiter.map
          /\ seen' = [seen EXCEPT ![ip] = Some(SeenAfter(ip, now))]
          /\ meter' = MeterAfter(ip, now, ~limiter.limited)
          /\ admits' = [admits EXCEPT ![ip] = AdmitsAfter(ip, now, ~limiter.limited)]
          /\ IF limiter.limited
             THEN inflight' = [inflight EXCEPT ![s] =
                    Returned(reached, req, reached.stages,
                      jsonResponse("error",
                        <<"Too many requests. Please wait a minute and try again.">>,
                        429, corsHeaders))]
             ELSE IF ApiKeyRejected(env, req.apiKey)
             THEN inflight' = [inflight EXCEPT ![s] =
                    Returned(reached, req, reached.stages,
                      jsonResponse("error", <<"Unauthorized">>, 401, corsHeaders))]
             ELSE inflight' = [inflight EXCEPT ![s] =
                    [reached EXCEPT !.pc = "formData"]]
  /\ UNCHANGED <<env, now, panelVars>>

\* fetch, from its entry to `await request.formData()`
Begin(s, req) ==
  /\ inflight[s].pc = "idle"
  /\ LET requestOrigin == req.origin
         corsHeaders == buildCorsHeaders(env, requestOrigin)
         ip == ClientIp(req)
         limiter == isRateLimited(rateLimitMap, ip, now)
         reached == [inflight[s] EXCEPT
                       !.req = Some(req),
                       !.stages = <<"preflight", "method", "origin", "apikey", "ratelimit">>,
                       !.at = now,
                       !.entryBefore = rateLimitMap[ip],
                       !.seenBefore = seen[ip],
                       !.rank = SeenAfter(ip, now).n]
     IN
     IF req.method = "OPTIONS"
     THEN /\ inflight' = [inflight EXCEPT ![s] =
                 Returned(@, req, <<"preflight">>, PreflightResponse(corsHeaders))]
          /\ UNCHANGED <<rateLimitMap, seen, meter, admits>>
     ELSE IF req.method # "POST"
     THEN /\ inflight' = [inflight EXCEPT ![s] =
                 Returned(@, req, <<"preflight", "method">>,
                   jsonResponse("error", <<"Method not allowed">>, 405, corsHeaders))]
          /\ UNCHANGED <<rateLimitMap, seen, meter, admits>>
     ELSE IF OriginRejected(env, requestOrigin)
     THEN /\ inflight' = [inflight EXCEPT ![s] =
                 Returned(@, req, <<"preflight", "method", "origin">>,
                   jsonResponse("error", <<"Origin not allowed">>, 403, corsHeaders))]
          /\ UNCHANGED <<rateLimitMap, seen, meter, admits>>
     ELSE IF ApiKeyRejected(env, req.apiKey)
     THEN /\ inflight' = [inflight EXCEPT ![s] =
                 Returned(@, req, <<"preflight", "method", "origin", "apikey">>,
                   jsonResponse("error", <<"Unauthorized">>, 401, corsHeaders))]
          /\ UNCHANGED <<rateLimitMap, seen, meter, admits>>
     ELSE /\ rateLimitMap' = limiter.map
          /\ seen' = [seen EXCEPT ![ip] = Some(SeenAfter(ip, now))]
          /\ meter' = MeterAfter(ip, now, ~limiter.limited)
          /\ admits' = [admits EXCEPT ![ip] = AdmitsAfter(ip, now, ~limiter.limited)]
          /\ IF limiter.limited
             THEN inflight' = [inflight EXCEPT ![s] =
                    Returned(reached, req, reached.stages,
                      jsonResponse("error",
                        <<"Too many requests. Please wait a minute and try again.">>,
                        429, corsHeaders))]
             ELSE inflight' = [inflight EXCEPT ![s] =
                    [reached EXCEPT !.pc = "formData"]]
  /\ UNCHANGED <<env, now, panelVars>>

\* the slot after `await request.formData()` settles with `body`: the
\* parse, the type check and the key, up to `await file.arrayBuffer()`
AfterFormData(e, slot, body, t, uuid) ==
  LET req == Val(slot.req)
      corsHeaders == buildCorsHeaders(e, req.origin)
      ext == GetProperty(body.type)
      parsed == [slot EXCEPT !.body = Some(body)]
      typed == [parsed EXCEPT !.file = Some([type |-> body.type])]
  IN
  IF ParseFailed(body)
  THEN Returned(parsed, req, slot.stages \o <<"parse">>,
         jsonResponse("error",
           <<"Invalid request. Expected multipart/form-data with a ",
             "\"", "file", "\"", " field.">>,
           400, corsHeaders))
  ELSE IF ext = None
  THEN Returned(typed, req, slot.stages \o <<"parse", "type">>,
         jsonResponse("error", UnsupportedTypeMessage(body.type), 400, corsHeaders))
  ELSE [typed EXCEPT !.pc = "store",
                     !.stages = @ \o <<"parse", "type">>,
                     !.key = Some(StorageKey(t, uuid, Val(ext)))]

\* FormDataSettled writing the entry back after the await, computed from
\* what the invocation read before it
FormDataSettled_WritesEntryBack(s, body, uuid) ==
  /\ inflight[s].pc = "formData"
  /\ inflight' = [inflight EXCEPT ![s] = AfterFormData(env, @, body, now, uuid)]
  /\ LET ip == ClientIp(Val(inflight[s].req))
         read == [rateLimitMap EXCEPT ![ip] = inflight[s].entryBefore]
     IN rateLimitMap' =
          [rateLimitMap EXCEPT ![ip] = isRateLimited(read, ip, inflight[s].at).map[ip]]
  /\ UNCHANGED <<env, now, seen, meter, admits, panelVars>>

FormDataSettled(s, body, uuid) ==
  /\ inflight[s].pc = "formData"
  /\ inflight' = [inflight EXCEPT ![s] = AfterFormData(env, @, body, now, uuid)]
  /\ UNCHANGED <<env, now, rateLimitMap, seen, meter, admits, panelVars>>

\* StorageFailureResponse with the caught error put into the message
StorageFailureResponse_Leaks(err, corsHeaders) ==
  jsonResponse("error", <<"Upload to storage failed: ", err>>, 502, corsHeaders)

\* jsonResponse({ error: 'Upload to storage failed. Please try again.' }, 502, ...)
StorageFailureResponse(err, corsHeaders) ==
  jsonResponse("error", <<"Upload to storage failed. Please try again.">>,
               502, corsHeaders)

\* AfterStore with a catch block that logs and does not return
AfterStore_CatchFallsThrough(e, slot, outcome) ==
  LET req == Val(slot.req)
      corsHeaders == buildCorsHeaders(e, req.origin)
      key == Val(slot.key)
      call == [key |-> key, contentType |-> Val(slot.file).type,
               stored |-> outcome.kind = "stored"]
      called == [slot EXCEPT
                   !.outcome = Some(outcome),
                   !.puts = IF outcome.kind = "readThrows" THEN @ ELSE Append(@, call),
                   !.logged = IF outcome.kind = "stored" THEN @
                              ELSE Some(<<"R2 upload error:", outcome.err>>)]
  IN
  Returned(called, req, slot.stages \o <<"store">>,
    jsonResponse("url", PublicUrl(e, key), 200, corsHeaders))

\* the slot after `await file.arrayBuffer()` and `await env.IMAGE_BUCKET.put`
\* settle with `outcome`: the guarded block, its catch, the public URL
AfterStore(e, slot, outcome) ==
  LET req == Val(slot.req)
      corsHeaders == buildCorsHeaders(e, req.origin)
      key == Val(slot.key)
      call == [key |-> key, contentType |-> Val(slot.file).type,
               stored |-> outcome.kind = "stored"]
      \* arrayBuffer() is awaited before put is called
      called == [slot EXCEPT
                   !.outcome = Some(outcome),
                   !.puts = IF outcome.kind = "readThrows" THEN @ ELSE Append(@, call)]
  IN
  IF outcome.kind = "stored"
  THEN Returned(called, req, slot.stages \o <<"store">>,
         jsonResponse("url", PublicUrl(e, key), 200, corsHeaders))
  ELSE Returned([called EXCEPT !.logged = Some(<<"R2 upload error:", outcome.err>>)],
         req, slot.stages \o <<"store">>,
         StorageFailureResponse(outcome.err, corsHeaders))

StoreSettled(s, outcome) ==
  /\ inflight[s].pc = "store"
  /\ inflight' = [inflight EXCEPT ![s] = AfterStore(env, @, outcome)]
  /\ UNCHANGED <<env, now, rateLimitMap, seen, meter, admits, panelVars>>

\* the response has gone to the client: the invocation is over
Return(s) ==
  /\ inflight[s].pc = "done"
  /\ inflight' = [inflight EXCEPT ![s] = IdleSlot]
  /\ UNCHANGED <<env, now, rateLimitMap, seen, meter, admits, panelVars>>

\* time passes
Tick(t) ==
  /\ t > now
  /\ now' = t
  /\ UNCHANGED <<env, rateLimitMap, inflight, seen, meter, admits, panelVars>>

\* start metering the admissions of one identifier
StartMeter(ip) ==
  /\ meter = NoMeter
  /\ meter' = [ip |-> Some(ip), start |-> now, admitted |-> 0]
  /\ UNCHANGED <<env, now, rateLimitMap, inflight, seen, admits, panelVars>>

(***************************************************************************)
(* The image panel.  handleFileChange runs from one await to the next      *)
(* without another handler of the panel running in between; each action is *)
(* one such run.  It closes over the `data` of the render it was created   *)
(* in; the field handlers are those of the latest render.                  *)
(***************************************************************************)
\* ImagePropsSchema.safeParse: succeeds on a well-formed block and hands it back
safeParse(d) == [success |-> d \in ImagePropsValues, data |-> d]

\* updateData(d): the value passed to setData, if it is called
updateData(d) ==
  LET res == safeParse(d) IN
  IF res.success THEN Some(res.data) ELSE None

\* what fetch and response.json() throw, and new Error(message)
Error(message) == [isError |-> TRUE, message |-> message]

FetchTypeError == Error(<<"Failed to fetch">>)

JsonSyntaxError == Error(<<"Unexpected end of JSON input">>)

NullTypeError == Error(<<"Cannot read properties of null (reading 'url')">>)

\* the catch block and the finally block after it
Thrown(err) ==
  [uploadState |->
     [status |-> "error",
      message |-> Some(IF err.isError THEN err.message
                       ELSE <<"Upload failed. Please try again.">>)],
   setData |-> None, finally |-> TRUE, ended |-> "failed"]

\* AfterJson with `await response.json()` placed before the try block
AfterJson_ParseOutsideTry(captured, response, parsed) ==
  IF parsed.kind = "rejects"
  THEN [uploadState |-> [status |-> "uploading", message |-> None],
        setData |-> None, finally |-> FALSE, ended |-> "failed"]
  ELSE IF parsed.kind = "null"
  THEN Thrown(NullTypeError)
  ELSE IF ~response.ok \/ ~Truthy(parsed.url)
  THEN Thrown(Error(IF parsed.error # None THEN Val(parsed.error)
                    ELSE <<"Upload failed (", ToString(response.status), ")">>))
  ELSE [uploadState |-> [status |-> "idle", message |-> None],
        setData |-> updateData([captured EXCEPT !.props.url = parsed.url]),
        finally |-> TRUE, ended |-> "ok"]

\* AfterJson testing result.url only, not response.ok
AfterJson_IgnoresStatus(captured, response, parsed) ==
  IF parsed.kind = "rejects"
  THEN Thrown(JsonSyntaxError)
  ELSE IF parsed.kind = "null"
  THEN Thrown(NullTypeError)
  ELSE IF ~Truthy(parsed.url)
  THEN Thrown(Error(IF parsed.error # None THEN Val(parsed.error)
                    ELSE <<"Upload failed (", ToString(response.status), ")">>))
  ELSE [uploadState |-> [status |-> "idle", message |-> None],
        setData |-> updateData([captured EXCEPT !.props.url = parsed.url]),
        finally |-> TRUE, ended |-> "ok"]

\* handleFileChange after `await response.json()` settles with `parsed`,
\* `captured` being the data it closed over: the new upload state, the
\* value passed to setData if any, and whether the finally block ran
AfterJson(captured, response, parsed) ==
  IF parsed.kind = "rejects"
  THEN Thrown(JsonSyntaxError)
  ELSE IF parsed.kind = "null"
  THEN Thrown(NullTypeError)
  ELSE IF ~response.ok \/ ~Truthy(parsed.url)
  THEN Thrown(Error(IF parsed.error # None THEN Val(parsed.error)
                    ELSE <<"Upload failed (", ToString(response.status), ")">>))
  ELSE [uploadState |-> [status |-> "idle", message |-> None],
        setData |-> updateData([captured EXCEPT !.props.url = parsed.url]),
        finally |-> TRUE, ended |-> "ok"]

\* the call of handleFileChange ends as `ending` says
Ends(ending, fetched, parsed) ==
  /\ uploadState' = ending.uploadState
  /\ data' = IF ending.setData = None THEN data ELSE Val(ending.setData)
  /\ fileInput' = IF ending.finally /\ UPLOAD_ENABLED THEN "" ELSE fileInput
  /\ upload' = [upload EXCEPT !.pc = "idle", !.fetched = fetched, !.parsed = parsed,
                              !.setData = ending.setData, !.ended = ending.ended]

\* the change event of the file input: handleFileChange from its entry to
\* `await fetch(...)`.  The picker opens from the button, which is disabled
\* while an upload runs; without the input the handler is called directly.
handleFileChange(file) ==
  /\ upload.pc = "idle"
  /\ UPLOAD_ENABLED => uploadState.status # "uploading"
  /\ fileInput' = IF UPLOAD_ENABLED /\ file # None THEN Val(file)
                  ELSE IF UPLOAD_ENABLED THEN "" ELSE fileInput
  /\ IF file = None \/ ~TruthyKey(WORKER_URL) \/ ~TruthyKey(API_KEY)
     THEN /\ upload' = [IdleUpload EXCEPT !.file = file, !.ended = "skipped"]
          /\ UNCHANGED uploadState
     ELSE /\ uploadState' = [status |-> "uploading", message |-> None]
          /\ upload' = [IdleUpload EXCEPT !.pc = "fetch", !.data = Some(data),
                                          !.file = file, !.ended = "running"]
  /\ UNCHANGED <<workerVars, viteEnv, data>>

\* `await fetch(...)` settles
UploadFetchSettled(outcome) ==
  /\ upload.pc = "fetch"
  /\ IF outcome.kind = "rejects"
     THEN Ends(Thrown(FetchTypeError), Some(outcome), None)
     ELSE /\ upload' = [upload EXCEPT !.pc = "json", !.response = outcome.response,
                                      !.fetched = Some(outcome)]
          /\ UNCHANGED <<data, uploadState, fileInput>>
  /\ UNCHANGED <<workerVars, viteEnv>>

\* `await response.json()` settles
UploadJsonSettled(parsed) ==
  /\ upload.pc = "json"
  /\ Ends(AfterJson(Val(upload.data), Val(upload.response), parsed),
          upload.fetched, Some(parsed))
  /\ UNCHANGED <<workerVars, viteEnv>>

\* the Source URL field
EditSourceUrl(v) ==
  /\ LET url == IF Len(Trim(v)) = 0 THEN None ELSE Some(Trim(v))
         d == updateData([data EXCEPT !.props.url = url])
     IN data' = IF d = None THEN data ELSE Val(d)
  /\ UNCHANGED <<workerVars, viteEnv, uploadState, fileInput, upload>>

\* the Alt text field
EditAltText(alt) ==
  /\ LET d == updateData([data EXCEPT !.props.alt = Some(alt)])
     IN data' = IF d = None THEN data ELSE Val(d)
  /\ UNCHANGED <<workerVars, viteEnv, uploadState, fileInput, upload>>

\* the style panel
EditStyle(style) ==
  /\ LET d == updateData([data EXCEPT !.style = style])
     IN data' = IF d = None THEN data ELSE Val(d)
  /\ UNCHANGED <<workerVars, viteEnv, uploadState, fileInput, upload>>

\* the close button of the error alert
CloseAlert ==
  /\ UPLOAD_ENABLED
  /\ uploadState.status = "error"
  /\ uploadState' = [status |-> "idle", message |-> None]
  /\ UNCHANGED <<workerVars, viteEnv, data, fileInput, upload>>

(***************************************************************************)
(* Specifications.  The actions are the same in all of them; each draws    *)
(* its requests, outcomes, bindings and instants from the part of the      *)
(* values above that its claims are about.                                 *)
(***************************************************************************)
\* Spec: the whole pipeline.  Every method, Origin and key header, every
\* body, file type and storage outcome, every binding; one client address,
\* one invocation at a time.
PipelineRequests == {r \in Requests : r.ip # None}

Next ==
  \/ \E req \in PipelineRequests : Begin(1, req)
  \/ \E body \in Bodies, uuid \in UUIDs : FormDataSettled(1, body, uuid)
  \/ \E outcome \in StoreOutcomes : StoreSettled(1, outcome)
  \/ Return(1)
  \/ \E t \in Instants : Tick(t)

Spec == Init /\ [][Next]_vars

\* SpecRate: the limiter.  POST requests of the allowed origin, with and
\* without the right key, with and without a client address; every instant.
RateEnvs ==
  {e \in Envs : /\ e.ALLOWED_ORIGIN = Some(<<" ">> \o OriginA \o <<" ">>)
                /\ e.UPLOAD_API_KEY # None
                /\ e.R2_PUBLIC_URL = PublicBase}

RateRequests ==
  {r \in Requests : /\ r.method = "POST"
                    /\ r.origin = Some(OriginA)
                    /\ r.apiKey # None}

RateBodies == {b \in Bodies : b.kind = "throws" \/ b.type = "image/png"}

RateOutcomes == {o \in StoreOutcomes : o.kind # "readThrows"}

InitRate == InitWith(RateEnvs)

NextRate ==
  \/ \E req \in RateRequests : Begin(1, req)
  \/ \E body \in RateBodies, uuid \in UUIDs : FormDataSettled(1, body, uuid)
  \/ \E outcome \in RateOutcomes : StoreSettled(1, outcome)
  \/ Return(1)
  \/ \E t \in Instants : Tick(t)

SpecRate == InitRate /\ [][NextRate]_vars

\* SpecMeter: SpecRate for one client address, with the meter started at
\* any moment.
MeterRequests == {r \in RateRequests : r.ip # None}

NextMeter ==
  \/ \E req \in MeterRequests : Begin(1, req)
  \/ \E body \in RateBodies, uuid \in UUIDs : FormDataSettled(1, body, uuid)
  \/ \E outcome \in RateOutcomes : StoreSettled(1, outcome)
  \/ Return(1)
  \/ \E t \in Instants : Tick(t)
  \/ \E req \in MeterRequests : StartMeter(ClientIp(req))

SpecMeter == InitRate /\ [][NextMeter]_vars

\* SpecConc: two invocations in flight, each stopping at its awaits while
\* the other runs.  Requests of one client address that reach the limiter.
ConcRequests == {r \in MeterRequests : ~ApiKeyRejected(CHOOSE e \in RateEnvs : TRUE, r.apiKey)}

ConcUUIDs == {CHOOSE u \in UUIDs : TRUE}

NextConc ==
  \/ \E s \in Slots, req \in ConcRequests : Begin(s, req)
  \/ \E s \in Slots, body \in RateBodies, uuid \in ConcUUIDs : FormDataSettled(s, body, uuid)
  \/ \E s \in Slots, outcome \in RateOutcomes : StoreSettled(s, outcome)
  \/ \E s \in Slots : Return(s)
  \/ \E t \in Instants : Tick(t)

SpecConc == InitRate /\ [][NextConc]_vars

\* SpecPanel: the image panel, on every build and block, with the worker
\* at rest.
InitPanel ==
  /\ WorkerInit({CHOOSE e \in RateEnvs : TRUE})
  /\ PanelInit(ViteEnvs, Blocks)

NextPanel ==
  \/ \E file \in Files : handleFileChange(file)
  \/ \E outcome \in FetchOutcomes : UploadFetchSettled(outcome)
  \/ \E parsed \in JsonOutcomes : UploadJsonSettled(parsed)
  \/ \E v \in UrlTexts : EditSourceUrl(v)
  \/ \E alt \in AltTexts : EditAltText(alt)
  \/ \E style \in Styles : EditStyle(style)
  \/ CloseAlert

SpecPanel == InitPanel /\ [][NextPanel]_vars

(***************************************************************************)
(* What the claims speak of                                                *)
(***************************************************************************)
Busy == {s \in Slots : inflight[s].pc # "idle"}

Done == {s \in Slots : inflight[s].pc = "done"}

Status(s) == Val(inflight[s].resp).status

\* the five MIME types the worker is to accept, and their extensions
AllowedMimeTypes ==
  {"image/jpeg", "image/png", "image/gif", "image/webp", "image/svg+xml"}

ExtensionOf(type) ==
  CASE type = "image/jpeg" -> "jpg"
    [] type = "image/png" -> "png"
    [] type = "image/gif" -> "gif"
    [] type = "image/webp" -> "webp"
    [] type = "image/svg+xml" -> "svg"
    [] OTHER -> "none"

\* ALLOWED_ORIGIN is configured: non-empty after trimming
OriginConfigured == Truthy(TrimOpt(env.ALLOWED_ORIGIN))

\* the request's Origin header is not the configured origin
OriginDiffers(req) == req.origin # TrimOpt(env.ALLOWED_ORIGIN)

\* the request misses or mismatches the shared secret
SecretMissingOrWrong(req) ==
  \/ req.apiKey = None
  \/ ~TruthyKey(env.UPLOAD_API_KEY)
  \/ req.apiKey # env.UPLOAD_API_KEY

\* the text of the one member of a response body { "<member>": "<text>" }
BodyMember(resp) == Val(resp.body)[3]

BodyText(resp) == SubSeq(Val(resp.body), 7, Len(Val(resp.body)) - 2)

Tokens(text) == {text[i] : i \in 1..Len(text)}

EndsWith(text, suffix) ==
  /\ Len(suffix) <= Len(text)
  /\ SubSeq(text, Len(text) - Len(suffix) + 1, Len(text)) = suffix

StageOrder ==
  <<"preflight", "method", "origin", "apikey", "ratelimit", "parse", "type", "store">>

\* The earliest stage the request of `slot` fails, as the stages are
\* specified: its place in StageOrder, or 9 when it fails none.  A stage the
\* invocation has no input for yet counts as failed.
FirstFailure(slot) ==
  LET req == Val(slot.req) IN
  IF req.method = "OPTIONS" THEN 1
  ELSE IF req.method # "POST" THEN 2
  ELSE IF OriginConfigured /\ OriginDiffers(req) THEN 3
  ELSE IF SecretMissingOrWrong(req) THEN 4
  ELSE IF slot.rank > RATE_LIMIT_MAX THEN 5
  ELSE IF slot.body = None \/ Val(slot.body).kind # "file" THEN 6
  ELSE IF Val(slot.body).type \notin AllowedMimeTypes THEN 7
  ELSE IF slot.outcome = None \/ Val(slot.outcome).kind # "stored" THEN 8
  ELSE 9

StageStatus == <<204, 405, 403, 401, 429, 400, 400, 502, 200>>

\* C1: the stages run in the order preflight, method, origin, API key, rate
\* limit, parse, type, store; a returned response has the status of the
\* earliest failing stage, the invocation ran the stages up to that one and
\* none after it, and 200 is returned only when every stage passed.
C1_EarliestFailingStageDecides ==
  \A s \in Done :
    LET f == FirstFailure(inflight[s]) IN
    /\ Status(s) = StageStatus[f]
    /\ inflight[s].stages = SubSeq(StageOrder, 1, Min(f, Len(StageOrder)))

C6_UnsupportedTypeRejected ==
  \A s \in Busy :
    LET slot == inflight[s] IN
    (/\ slot.body # None
     /\ Val(slot.body).kind = "file"
     /\ Val(slot.body).type \notin AllowedMimeTypes)
      => /\ slot.pc = "done"
         /\ Status(s) = 400
         /\ BodyMember(Val(slot.resp)) = "error"
         /\ Val(slot.body).type \in Tokens(BodyText(Val(slot.resp)))
         /\ AllowedMimeTypes \subseteq Tokens(BodyText(Val(slot.resp)))
         /\ slot.puts = <<>>

\* C7: a response is 200 with a url exactly when the request's one put
\* completed: no invocation calls put twice, a request answered with anything
\* but 200 has stored nothing, and a request whose put succeeded is answered
\* 200 with a url that ends in the stored key.
C7_OkIffStored ==
  \A s \in Slots :
    LET slot == inflight[s]
        stored == {i \in 1..Len(slot.puts) : slot.puts[i].stored}
    IN
    /\ Len(slot.puts) <= 1
    /\ stored # {} => slot.pc = "done"
    /\ slot.pc = "done" =>
         /\ Status(s) = 200 <=> stored # {}
         /\ Status(s) = 200 =>
              /\ BodyMember(Val(slot.resp)) = "url"
              /\ EndsWith(BodyText(Val(slot.resp)), <<"/">> \o slot.puts[1].key)

\* an upload that went through, and beside it none needed
C7_Witness ==
  /\ inflight[1].pc = "done"
  /\ Status(1) = 200
  /\ Len(inflight[1].puts) = 1
  /\ inflight[1].puts[1].stored

\* C8: every object written has a key uploads/<epoch-millis>-<uuid>.<ext>,
\* <ext> one of jpg, png, gif, webp, svg and the one mapped from the file's
\* declared type, and its content type is that declared type, one of the
\* five allowed.
C8_StoredObjectsWellFormed ==
  \A s \in Slots :
    \A i \in 1..Len(inflight[s].puts) :
      LET call == inflight[s].puts[i]
          declared == Val(inflight[s].body).type
      IN
      call.stored =>
        /\ Len(call.key) = 6
        /\ call.key[1] = "uploads/"
        /\ call.key[2] \in {ToString(t) : t \in Instants}
        /\ call.key[3] = "-"
        /\ call.key[4] \in UUIDs
        /\ call.key[5] = "."
        /\ call.key[6] \in {"jpg", "png", "gif", "webp", "svg"}
        /\ call.key[6] = ExtensionOf(declared)
        /\ call.contentType = declared
        /\ call.contentType \in AllowedMimeTypes

\* C9: with ALLOWED_ORIGIN configured, a POST whose Origin header differs
\* from it or is absent is answered 403, its body is never parsed and no put
\* is attempted.
C9_ForeignOriginForbidden ==
  \A s \in Busy :
    LET slot == inflight[s] IN
    (/\ OriginConfigured
     /\ Val(slot.req).method = "POST"
     /\ OriginDiffers(Val(slot.req)))
      => /\ slot.pc = "done"
         /\ Status(s) = 403
         /\ "parse" \notin Tokens(slot.stages)
         /\ slot.body = None /\ slot.file = None
         /\ slot.puts = <<>>

\* a POST without an Origin header, with the right key, under a configured
\* origin
C9_Witness ==
  /\ OriginConfigured
  /\ inflight[1].pc = "done"
  /\ Val(inflight[1].req).method = "POST"
  /\ Val(inflight[1].req).origin = None
  /\ Val(inflight[1].req).apiKey = env.UPLOAD_API_KEY
  /\ Status(1) = 403

\* C10: when the file read or the put throws on a request that passed every
\* earlier stage, the invocation returns 502 with the fixed error text, the
\* body holds nothing of the backend's error, and nothing is thrown further.
C10_StorageFailureIsBadGateway ==
  \A s \in Busy :
    LET slot == inflight[s] IN
    (slot.outcome # None /\ Val(slot.outcome).kind # "stored")
      => /\ slot.pc = "done"
         /\ Status(s) = 502
         /\ Val(slot.resp).body =
              Some(<<"{", "\"", "error", "\"", ":", "\"",
                     "Upload to storage failed. Please try again.", "\"", "}">>)
         /\ Val(slot.outcome).err \notin Tokens(Val(slot.resp).body[1])

\* a put that threw
C10_Witness ==
  /\ inflight[1].pc = "done"
  /\ Status(1) = 502
  /\ Val(inflight[1].outcome).kind = "putThrows"
  /\ Len(inflight[1].puts) = 1

\* the slots whose request has reached the limiter
Limited == {s \in Slots : inflight[s].rank > 0}

\* C3: of the authenticated requests of one identifier that arrive within one
\* window (none more than 60 000 ms after the one that opened it), the 1st
\* to the 20th pass the limiter and get what the later stages yield, the 21st
\* and every further one gets 429.
C3_TwentyPassThenTooMany ==
  \A s \in Limited :
    LET slot == inflight[s] IN
    IF slot.rank <= RATE_LIMIT_MAX
    THEN \/ slot.pc \in {"formData", "store"}
         \/ /\ slot.pc = "done"
            /\ Status(s) \in {200, 400, 502}
            /\ Len(slot.stages) > 5
    ELSE /\ slot.pc = "done"
         /\ Status(s) = 429
         /\ slot.stages[Len(slot.stages)] = "ratelimit"

\* the 21st request of a window is answered 429 after the 20th was let in,
\* while the other identifier is still under its limit
C3_Witness ==
  /\ inflight[1].rank = RATE_LIMIT_MAX + 1
  /\ Status(1) = 429
  /\ inflight[1].at - Val(inflight[1].entryBefore).windowStart = RATE_LIMIT_WINDOW_MS
  /\ Val(inflight[1].entryBefore).count = RATE_LIMIT_MAX
  /\ \E ip \in Identifiers :
       /\ ip # ClientIp(Val(inflight[1].req))
       /\ rateLimitMap[ip] # None
       /\ Val(rateLimitMap[ip]).count < RATE_LIMIT_MAX

\* C4: in any interval of 60 000 ms, at most 20 requests of one identifier
\* pass the limiter.
C4_AtMostTwentyPerMinute == meter.admitted <= RATE_LIMIT_MAX

\* C5: a request that reaches the limiter more than 60 000 ms after its
\* identifier's windowStart sets the entry to count 1 and windowStart now, and
\* passes as the 1st of a new window, whatever the count was; one that comes
\* at most 60 000 ms after windowStart leaves windowStart as it is.
C5_WindowResets ==
  [][\A s \in Slots :
       (inflight[s].pc = "idle" /\ inflight'[s].rank > 0) =>
         LET ip == ClientIp(Val(inflight'[s].req))
             entry == rateLimitMap[ip]
         IN
         entry # None =>
           IF now - Val(entry).windowStart > RATE_LIMIT_WINDOW_MS
           THEN /\ rateLimitMap'[ip] = Some([count |-> 1, windowStart |-> now])
                /\ inflight'[s].pc = "formData"
                /\ inflight'[s].rank = 1
           ELSE /\ Val(rateLimitMap'[ip]).windowStart = Val(entry).windowStart
                /\ Val(rateLimitMap'[ip]).count >= Val(entry).count
                /\ inflight'[s].rank > 1]_vars

\* a request let in as the 1st of a new window, after a window in which 20
\* were let in and more were answered 429
C5_Witness ==
  /\ inflight[1].pc = "formData"
  /\ inflight[1].rank = 1
  /\ inflight[1].entryBefore # None
  /\ Val(inflight[1].entryBefore).count = RATE_LIMIT_MAX
  /\ Val(inflight[1].seenBefore).n > RATE_LIMIT_MAX
  /\ rateLimitMap[ClientIp(Val(inflight[1].req))] =
       Some([count |-> 1, windowStart |-> now])
  /\ now > RATE_LIMIT_WINDOW_MS

\* the slots whose invocation has returned or is about to: they hold a response
Answered == {s \in Slots : inflight[s].resp # None}

Header(s, name) == Val(inflight[s].resp).headers[name]

\* C11: Access-Control-Allow-Origin is the trimmed ALLOWED_ORIGIN when that
\* is non-empty, whatever the request's Origin; else the request's Origin as
\* sent; else * when the request has no Origin header.
C11_AllowOriginValue ==
  \A s \in Answered :
    LET req == Val(inflight[s].req) IN
    Header(s, "Access-Control-Allow-Origin") =
      IF OriginConfigured THEN Trim(Val(env.ALLOWED_ORIGIN))
      ELSE IF req.origin # None THEN Val(req.origin)
      ELSE <<"*">>

\* a padded ALLOWED_ORIGIN answered trimmed to a request of another origin
C11_Witness ==
  /\ env.ALLOWED_ORIGIN = Some(<<" ">> \o OriginA \o <<" ">>)
  /\ inflight[1].resp # None
  /\ Val(inflight[1].req).origin = Some(OriginB)
  /\ Header(1, "Access-Control-Allow-Origin") = OriginA

CorsHeaderNames ==
  {"Access-Control-Allow-Origin", "Access-Control-Allow-Methods",
   "Access-Control-Allow-Headers", "Access-Control-Max-Age"}

FailureStatuses == {400, 401, 403, 405, 429, 502}

\* C12: every response carries the four CORS headers; every response with
\* status 400, 401, 403, 405, 429 or 502 has Content-Type application/json
\* and a body {"error": "<message>"} whose message holds no bare quote.
C12_CorsAndJsonErrors ==
  \A s \in Answered :
    LET resp == Val(inflight[s].resp) IN
    /\ resp.status \in FailureStatuses \cup {200, 204}
    /\ CorsHeaderNames \subseteq DOMAIN resp.headers
    /\ resp.headers["Access-Control-Allow-Methods"] = <<"POST, OPTIONS">>
    /\ resp.headers["Access-Control-Allow-Headers"] = <<"Content-Type, X-Upload-Api-Key">>
    /\ resp.headers["Access-Control-Max-Age"] = <<"86400">>
    /\ resp.status \in FailureStatuses =>
         /\ "Content-Type" \in DOMAIN resp.headers
         /\ resp.headers["Content-Type"] = <<"application/json">>
         /\ resp.body # None
         /\ Len(Val(resp.body)) >= 8
         /\ SubSeq(Val(resp.body), 1, 6) = <<"{", "\"", "error", "\"", ":", "\"">>
         /\ SubSeq(Val(resp.body), Len(Val(resp.body)) - 1, Len(Val(resp.body)))
              = <<"\"", "}">>
         /\ "\"" \notin Tokens(BodyText(resp))

\* the 400 whose message quotes the declared type
C12_Witness ==
  /\ inflight[1].resp # None
  /\ Status(1) = 400
  /\ inflight[1].file # None
  /\ "\\\"" \in Tokens(BodyText(Val(inflight[1].resp)))
  /\ CorsHeaderNames \subseteq DOMAIN Val(inflight[1].resp).headers

\* C13: the url of a 200 response is R2_PUBLIC_URL without its trailing
\* slash, then /uploads/<ts>-<uuid>.<ext> with <ext> the extension mapped
\* from the declared type; the path after the base is the key the object was
\* stored under, and base and key are joined by one slash.
C13_PublicUrlOfStoredKey ==
  \A s \in Answered :
    Status(s) = 200 =>
      LET slot == inflight[s]
          url == BodyText(Val(slot.resp))
          base == IF env.R2_PUBLIC_URL[Len(env.R2_PUBLIC_URL)] = "/"
                  THEN SubSeq(env.R2_PUBLIC_URL, 1, Len(env.R2_PUBLIC_URL) - 1)
                  ELSE env.R2_PUBLIC_URL
      IN
      /\ Len(slot.puts) = 1
      /\ url = base \o <<"/">> \o slot.puts[1].key
      /\ base[Len(base)] # "/"
      /\ slot.puts[1].key[1] = "uploads/"
      /\ slot.puts[1].key[Len(slot.puts[1].key)]
           = ExtensionOf(Val(slot.body).type)

\* the slots whose invocation starts in this step
Entering == {s \in Slots : inflight[s].pc = "idle" /\ inflight'[s].pc # "idle"}

\* C14: a request answered 429 leaves the entry of its identifier as it was,
\* count and windowStart, and that entry exists.
C14_RejectionLeavesEntry ==
  [][\A s \in Entering :
       (inflight'[s].resp # None /\ Val(inflight'[s].resp).status = 429) =>
         LET ip == ClientIp(Val(inflight'[s].req)) IN
         /\ rateLimitMap[ip] # None
         /\ rateLimitMap'[ip] = rateLimitMap[ip]]_vars

\* a request answered 429 after the window it was counted against had
\* already run for some time
C14_Witness ==
  /\ 1 \in Done
  /\ Status(1) = 429
  /\ inflight[1].entryBefore # None
  /\ inflight[1].at > Val(inflight[1].entryBefore).windowStart
  /\ rateLimitMap[ClientIp(Val(inflight[1].req))] = inflight[1].entryBefore

\* the request passes the method, origin and API-key checks
PassesChecks(req) ==
  /\ req.method = "POST"
  /\ ~(OriginConfigured /\ OriginDiffers(req))
  /\ ~SecretMissingOrWrong(req)

\* C15: the step that starts a request changes the rate-limit map exactly
\* when the request passes the method, origin and API-key checks and is not
\* answered 429; no later step of a request changes the map, so the count
\* of an admitted request stays when it ends in 400 or 502.
C15_MapChangesIffAdmitted ==
  [][/\ \A s \in Entering :
          LET req == Val(inflight'[s].req)
              tooMany == /\ inflight'[s].resp # None
                         /\ Val(inflight'[s].resp).status = 429
          IN
          (rateLimitMap' # rateLimitMap) <=> (PassesChecks(req) /\ ~tooMany)
     /\ Entering = {} => rateLimitMap' = rateLimitMap]_vars

\* an admitted request that ended in 400 or 502 and is still counted
C15_Witness ==
  /\ 1 \in Done
  /\ Status(1) \in {400, 502}
  /\ LET ip == ClientIp(Val(inflight[1].req)) IN
     /\ rateLimitMap[ip] # None
     /\ rateLimitMap[ip] # inflight[1].entryBefore
     /\ inflight[1].entryBefore # None =>
          Val(rateLimitMap[ip]).count = Val(inflight[1].entryBefore).count + 1
             \/ Val(rateLimitMap[ip]).windowStart = inflight[1].at

\* C16: with two invocations in flight, interleaved at their awaits, every
\* entry of the map has a count from 1 to 20, its windowStart is the instant
\* of the request that opened the window, and its count is the number of
\* requests of its identifier admitted since then; an identifier has an
\* entry exactly when one of its requests has reached the limiter.
C16_CountIsAdmissions ==
  \A ip \in Identifiers :
    /\ rateLimitMap[ip] = None <=> seen[ip] = None
    /\ rateLimitMap[ip] # None =>
         /\ Val(rateLimitMap[ip]).count >= 1
         /\ Val(rateLimitMap[ip]).count <= RATE_LIMIT_MAX
         /\ Val(rateLimitMap[ip]).windowStart = Val(seen[ip]).firstAt
         /\ Val(rateLimitMap[ip]).count = admits[ip]

\* both invocations suspended at an await, admitted one after the other in
\* the same window
C16_Witness ==
  /\ inflight[1].pc = "formData"
  /\ inflight[2].pc = "store"
  /\ inflight[1].entryBefore # None
  /\ inflight[2].entryBefore # None
  /\ Val(inflight[1].entryBefore).count + 1 = Val(inflight[2].entryBefore).count
  /\ Val(rateLimitMap[ClientIp(Val(inflight[1].req))]).count
       = Val(inflight[2].entryBefore).count + 1

\* this step is a call of handleFileChange
FileChangeCalled == upload.pc = "idle" /\ upload' # upload

\* this step ends a call of handleFileChange that had issued its request
UploadEnds == upload.pc # "idle" /\ upload'.pc = "idle"

\* C17: choosing a file with the worker URL and API key set makes
\* uploadState uploading and issues the request; the step in which the call
\* ends leaves uploadState idle or error and the file input empty;
\* uploadState is uploading only while a call is running; a change event
\* with no file, or with the worker URL or the API key missing, issues no
\* request and leaves uploadState as it was.
C17_UploadStateSettles ==
  [][LET skipped == \/ upload'.file = None
                    \/ ~TruthyKey(WORKER_URL)
                    \/ ~TruthyKey(API_KEY)
     IN
     /\ (FileChangeCalled /\ ~skipped) =>
          /\ uploadState'.status = "uploading"
          /\ upload'.pc = "fetch"
     /\ (FileChangeCalled /\ skipped) =>
          /\ upload'.pc = "idle"
          /\ uploadState' = uploadState
     /\ UploadEnds =>
          /\ uploadState'.status \in {"idle", "error"}
          /\ fileInput' = ""
     /\ uploadState'.status = "uploading" => upload'.pc # "idle"]_vars

\* a response whose body is not JSON: the call has ended in error with the
\* file input emptied
C17_Witness ==
  /\ upload.pc = "idle"
  /\ upload.file # None
  /\ upload.parsed # None
  /\ Val(upload.parsed).kind = "rejects"
  /\ uploadState.status = "error"
  /\ fileInput = ""

\* the upload whose awaits brought `fetched` and `parsed` fails: the request
\* rejects, the status is not OK, the body is not JSON, or holds no url
UploadFails(fetched, parsed) ==
  \/ Val(fetched).kind = "rejects"
  \/ ~Val(Val(fetched).response).ok
  \/ Val(parsed).kind # "object"
  \/ Val(parsed).url = None
  \/ Val(Val(parsed).url) = <<>>

\* C18: when a failing upload ends, setData has not been called, the data
\* is as before, and uploadState is error, its message the error member of
\* the response body when the body has one; when a succeeding upload ends,
\* the data's url is the returned url and uploadState is idle.
C18_FailureKeepsData ==
  [][UploadEnds =>
       IF UploadFails(upload'.fetched, upload'.parsed)
       THEN /\ upload'.setData = None
            /\ data' = data
            /\ uploadState'.status = "error"
            /\ (upload'.parsed # None /\ Val(upload'.parsed).error # None) =>
                 uploadState'.message = Val(upload'.parsed).error
       ELSE /\ upload'.setData # None
            /\ data'.props.url = Val(upload'.parsed).url
            /\ uploadState' = [status |-> "idle", message |-> None]]_vars

\* a 401 whose body names the error: the panel shows it and the data has
\* not been set
C18_Witness ==
  /\ upload.pc = "idle"
  /\ upload.ended = "failed"
  /\ upload.fetched # None
  /\ Val(upload.fetched).kind = "resolves"
  /\ Val(Val(upload.fetched).response).status = 401
  /\ upload.parsed = Some([kind |-> "object", url |-> None,
                           error |-> Some(<<"Unauthorized">>)])
  /\ uploadState = [status |-> "error", message |-> Some(<<"Unauthorized">>)]
  /\ upload.setData = None

\* C19: the step in which a succeeding upload ends changes the url of the
\* data and nothing else: alt and style are what they were just before it.
C19_UploadChangesOnlyUrl ==
  [][(UploadEnds /\ upload'.ended = "ok") =>
       data' = [data EXCEPT !.props.url = Val(upload'.parsed).url]]_vars

====
